---------------------------- MODULE Spec2Model ----------------------------
(***************************************************************************)
(* Model of portfolio_performance.py: the date normaliser                  *)
(* (try_convert_date_time, date_checker), the null guard (df_checker),     *)
(* the construction of PortfolioPerformanceData (load, common date range,  *)
(* reindex, forward fill) and the three query operations with their lazily *)
(* cached return tables.                                                   *)
(*                                                                         *)
(* Floating point cells are modelled as exact rationals <<n, d>> with      *)
(* d > 0; NaN is <<0, 0>>.  Python's None is the record [none |-> TRUE].   *)
(* A Timestamp is the proleptic Gregorian ordinal of its day.  Strings are *)
(* sequences of one-character strings.                                     *)
(***************************************************************************)
EXTENDS Integers, Sequences, FiniteSets, TLC

VARIABLES
    files,          \* what the Data folder holds: key -> table or None
    df_raw,         \* FormalData.__df_raw_dict
    df_asset,       \* FormalData.__df_asset
    df_currency,    \* FormalData.__df_currency
    raw_currency,   \* FormalData.__raw_currency
    df_total,       \* FormalData.__df_total
    call,           \* the last public call: scope, arguments, keyword count
    result,         \* outcome of the last public call
    arg,            \* argument handed to try_convert_date_time
    date,           \* value returned by try_convert_date_time
    runs            \* how often the computation of each derived table ran

vars == <<files, df_raw, df_asset, df_currency, raw_currency, df_total,
          call, result, arg, date, runs>>

objvars == <<df_raw, df_asset, df_currency, raw_currency, df_total>>

-----------------------------------------------------------------------------
(* Bounds *)

\* number of days spanned by the sample data files
NumDays == 5

\* longest tail appended to the year head of a date string
MaxTail == 6

\* the runs of one computation that are counted
MaxRuns == 2

-----------------------------------------------------------------------------
(* None and numeric cells *)

None == [none |-> TRUE]

IsNone(x) == "none" \in DOMAIN x

NaN == <<0, 0>>

IsNaN(v) == v[2] = 0

Abs(n) == IF n < 0 THEN 0 - n ELSE n

RECURSIVE GCD(_, _)
GCD(a, b) == IF b = 0 THEN a ELSE GCD(b, a % b)

\* the rational n/d in lowest terms with a positive denominator
Rat(n, d) ==
    LET g == GCD(Abs(n), Abs(d))
        s == IF d < 0 THEN 0 - 1 ELSE 1
    IN  IF d = 0 THEN NaN ELSE <<(s * n) \div g, (s * d) \div g>>

Num(n) == <<n, 1>>

\* float arithmetic: NaN is absorbing
FAdd(a, b) == IF IsNaN(a) \/ IsNaN(b) THEN NaN
              ELSE Rat(a[1] * b[2] + b[1] * a[2], a[2] * b[2])

FSub(a, b) == IF IsNaN(a) \/ IsNaN(b) THEN NaN
              ELSE Rat(a[1] * b[2] - b[1] * a[2], a[2] * b[2])

FMul(a, b) == IF IsNaN(a) \/ IsNaN(b) THEN NaN
              ELSE Rat(a[1] * b[1], a[2] * b[2])

\* the sample data keep every divisor positive, so x/0 never arises
FDiv(a, b) == IF IsNaN(a) \/ IsNaN(b) THEN NaN
              ELSE Rat(a[1] * b[2], a[2] * b[1])

-----------------------------------------------------------------------------
(* Calendar: pd.Timestamp for a day, as datetime.date.toordinal() *)

IsLeap(y) == (y % 4 = 0) /\ ((y % 100 # 0) \/ (y % 400 = 0))

DaysInMonth(y, m) ==
    IF m = 2 THEN (IF IsLeap(y) THEN 29 ELSE 28)
    ELSE IF m \in {4, 6, 9, 11} THEN 30 ELSE 31

RECURSIVE DaysBeforeMonth(_, _)
DaysBeforeMonth(y, m) ==
    IF m = 1 THEN 0 ELSE DaysBeforeMonth(y, m - 1) + DaysInMonth(y, m - 1)

DaysBeforeYear(y) ==
    LET p == y - 1 IN p * 365 + (p \div 4) - (p \div 100) + (p \div 400)

Ordinal(y, m, d) == DaysBeforeYear(y) + DaysBeforeMonth(y, m) + d

\* a calendar date pd.Timestamp can hold (1677-09-21 .. 2262-04-11; the
\* two boundary years cannot be written with the model's digits)
ValidDate(y, m, d) ==
    /\ y > 1677 /\ y < 2262
    /\ m \in 1..12
    /\ d >= 1 /\ d <= DaysInMonth(y, m)

-----------------------------------------------------------------------------
(* try_convert_date_time *)

DigitChars == {"0", "1", "2", "3", "4", "5", "6", "7", "8", "9"}

DigitVal(c) ==
    CASE c = "0" -> 0 [] c = "1" -> 1 [] c = "2" -> 2 [] c = "3" -> 3
      [] c = "4" -> 4 [] c = "5" -> 5 [] c = "6" -> 6 [] c = "7" -> 7
      [] c = "8" -> 8 [] c = "9" -> 9

\* arg.replace(symbol, '') for every non-digit symbol of arg
RECURSIVE StripNonDigits(_)
StripNonDigits(s) ==
    IF s = <<>> THEN <<>>
    ELSE IF Head(s) \in DigitChars
         THEN <<Head(s)>> \o StripNonDigits(Tail(s))
         ELSE StripNonDigits(Tail(s))

\* the two characters of s from position i, as a number
TwoDigits(s, i) == 10 * DigitVal(s[i]) + DigitVal(s[i + 1])

\* lengths of the prefixes of s from position i that the %m directive
\* 1[0-2]|0[1-9]|[1-9] can match, in the order the regex tries them
MonthMatches(s, i) ==
    (IF i + 1 <= Len(s) /\ TwoDigits(s, i) \in 1..12 THEN <<2>> ELSE <<>>)
    \o (IF i <= Len(s) /\ DigitVal(s[i]) \in 1..9 THEN <<1>> ELSE <<>>)

\* the same for %d: 3[0-1]|[1-2]\d|0[1-9]|[1-9]
DayMatches(s, i) ==
    (IF i + 1 <= Len(s) /\ TwoDigits(s, i) \in 1..31 THEN <<2>> ELSE <<>>)
    \o (IF i <= Len(s) /\ DigitVal(s[i]) \in 1..9 THEN <<1>> ELSE <<>>)

\* first (month length, day length) pair the backtracking regex accepts
FirstMatch(s) ==
    LET cands == [k \in 1..4 |->
                    LET ml == IF k <= 2 THEN 2 ELSE 1
                        dl == IF k % 2 = 1 THEN 2 ELSE 1
                    IN  <<ml, dl>>]
        ok(k) == LET ml == cands[k][1]
                     dl == cands[k][2]
                 IN  /\ \E j \in 1..Len(MonthMatches(s, 5)) :
                            MonthMatches(s, 5)[j] = ml
                     /\ \E j \in 1..Len(DayMatches(s, 5 + ml)) :
                            DayMatches(s, 5 + ml)[j] = dl
        hits == {k \in 1..4 : ok(k)}
    IN  IF hits = {} THEN <<0, 0>>
        ELSE cands[CHOOSE k \in hits : \A h \in hits : k <= h]

NaT == [kind |-> "NaT", day |-> 0]

False == [kind |-> "False", day |-> 0]

Timestamp(n) == [kind |-> "Timestamp", day |-> n]

\* pd.to_datetime(s, format='%Y%m%d') on a digit string: the strptime
\* regex (\d{4})(month)(day) must match a prefix, nothing may remain, and
\* the fields must form a date; ValueError is reported as False
ToDatetime(s) ==
    IF Len(s) = 0 THEN NaT
    ELSE IF Len(s) < 4 THEN False
    ELSE LET md == FirstMatch(s)
             y  == 1000 * DigitVal(s[1]) + 100 * DigitVal(s[2])
                   + TwoDigits(s, 3)
             m  == IF md[1] = 2 THEN TwoDigits(s, 5) ELSE DigitVal(s[5])
             d  == IF md[2] = 2 THEN TwoDigits(s, 5 + md[1])
                   ELSE DigitVal(s[5 + md[1]])
         IN  IF md[1] = 0 THEN False
             ELSE IF 4 + md[1] + md[2] # Len(s) THEN False
             ELSE IF ~ValidDate(y, m, d) THEN False
             ELSE Timestamp(Ordinal(y, m, d))

TsArg(n) == [ts |-> TRUE, day |-> n, str |-> <<>>]

StrArg(s) == [ts |-> FALSE, day |-> 0, str |-> s]

try_convert_date_time(a) ==
    IF a.ts THEN Timestamp(a.day)
    ELSE ToDatetime(StripNonDigits(a.str))

-----------------------------------------------------------------------------
(* Sample content of the Data folder *)

Assets == {"A", "B"}

\* first day of the sample data, 2013-01-30
FirstDay == Ordinal(2013, 1, 30)

Day(i) == FirstDay + i - 1

\* an index label as read_csv(parse_dates=[0]) leaves it: a date, or text
\* that pd.to_datetime cannot parse
DateLabel(n) == [ok |-> TRUE, day |-> n]

BadLabel == [ok |-> FALSE, day |-> 0]

SamplePrice ==
    [a \in Assets, i \in 1..NumDays |->
        IF a = "A" THEN Num(i + 1)
        ELSE IF i % 2 = 1 THEN Num(4) ELSE Num(2)]

\* the same prices with an empty cell for asset A in the first row
SamplePriceHole ==
    [a \in Assets, i \in 1..NumDays |->
        IF a = "A" /\ i = 1 THEN NaN ELSE SamplePrice[a, i]]

SampleRate ==
    [c \in {"EUR", "GBP"}, i \in 1..NumDays |->
        IF c = "EUR" THEN Num(1 + (i % 3)) ELSE Num(2 + (i % 2))]

SampleWeight ==
    [a \in Assets, i \in 1..NumDays |->
        IF a = "A" THEN Rat(i, i + 1) ELSE Rat(1, i + 1)]

\* the ascending sequence of the members of a finite set of integers
RECURSIVE SortedSeq(_)
SortedSeq(S) ==
    IF S = {} THEN <<>>
    ELSE LET lo == CHOOSE x \in S : \A y \in S : x <= y
         IN  <<lo>> \o SortedSeq(S \ {lo})

\* a csv file with one row per day number of ds; row number bad (if any)
\* has a damaged first field
MkFile(cols, value, ds, bad) ==
    LET days == SortedSeq(ds)
    IN  [index   |-> [k \in 1..Len(days) |->
                        IF k = bad THEN BadLabel ELSE DateLabel(Day(days[k]))],
         columns |-> cols,
         data    |-> [k \in 1..Len(days) |->
                        [c \in cols |-> value[c, days[k]]]]]

PricesFiles ==
    {None,
     MkFile(Assets, SamplePrice, 1..NumDays, 0),
     MkFile(Assets, SamplePrice, 2..NumDays, 0),
     MkFile(Assets, SamplePriceHole, (1..NumDays) \ {3}, 0),
     MkFile(Assets, SamplePrice, 1..NumDays, 2)}

ExchangesFiles ==
    {None,
     MkFile({"EUR", "GBP"}, SampleRate, 1..NumDays, 0),
     MkFile({"EUR"}, SampleRate, 2..(NumDays - 1), 0),
     MkFile({"EUR", "GBP"}, SampleRate, 1..NumDays, 2)}

WeightsFiles ==
    {None,
     MkFile(Assets, SampleWeight, 1..NumDays, 0),
     MkFile(Assets, SampleWeight, 2..NumDays, 0),
     MkFile(Assets, SampleWeight, 1..NumDays, 2),
     MkFile({"A"}, SampleWeight, 1..NumDays, 0)}

\* currencies.csv: one row per asset, one column 'currency'
MkCurrencies(cur) == [index |-> Assets, currency |-> cur]

CurrenciesFiles ==
    {None,
     MkCurrencies([a \in Assets |-> IF a = "A" THEN "EUR" ELSE "USD"]),
     MkCurrencies([a \in Assets |-> IF a = "A" THEN "GBP" ELSE "EUR"])}

Keys == {"currencies", "exchanges", "prices", "weights"}

DateKeys == {"exchanges", "prices", "weights"}

-----------------------------------------------------------------------------
(* Construction: PortfolioPerformanceData.__init__ *)

\* pd.to_datetime(data.index) raises ValueError
IndexCorrupted(df) == \E k \in DOMAIN df.index : ~df.index[k].ok

IndexDays(df) == {df.index[k].day : k \in DOMAIN df.index}

\* pd.date_range(start, end): every day from start to end
DateRange(lo, hi) == [k \in 1..(hi - lo + 1) |-> lo + k - 1]

\* _get_full_range_for_dates keeping the dates it could read in a frame
\* whose index is corrupted
get_full_range_for_dates_all(raw) ==
    LET dated  == {k \in DateKeys : ~IsNone(raw[k])}
        frames == {k \in dated : ~IndexCorrupted(raw[k])}
        bad    == dated \ frames
        all    == UNION {{raw[k].index[j].day :
                             j \in {i \in DOMAIN raw[k].index :
                                        raw[k].index[i].ok}} : k \in dated}
        lo     == CHOOSE x \in all : \A y \in all : x <= y
        hi     == CHOOSE x \in all : \A y \in all : x >= y
    IN  IF frames = {} THEN <<<<>>, bad>>
        ELSE <<DateRange(lo, hi), bad>>

\* FormalData._get_full_range_for_dates: <<general_index, bad_keys>>; the
\* None it returns for the index when no frame parsed is the empty sequence
get_full_range_for_dates(raw) ==
    LET dated  == {k \in DateKeys : ~IsNone(raw[k])}
        frames == {k \in dated : ~IndexCorrupted(raw[k])}
        bad    == dated \ frames
        all    == UNION {IndexDays(raw[k]) : k \in frames}
        lo     == CHOOSE x \in all : \A y \in all : x <= y
        hi     == CHOOSE x \in all : \A y \in all : x >= y
    IN  IF frames = {} THEN <<<<>>, bad>>
        ELSE <<DateRange(lo, hi), bad>>

\* DataFrame.reindex(general_index): rows by label, NaN rows for new labels
Reindex(df, idx) ==
    [index   |-> idx,
     columns |-> df.columns,
     data    |-> [j \in DOMAIN idx |->
                    IF \E k \in DOMAIN df.index : df.index[k].day = idx[j]
                    THEN df.data[CHOOSE k \in DOMAIN df.index :
                                    df.index[k].day = idx[j]]
                    ELSE [c \in df.columns |-> NaN]]]

\* the value fillna(method='bfill') leaves in row j of column c
RECURSIVE FilledCell_back(_, _, _)
FilledCell_back(df, j, c) ==
    IF ~IsNaN(df.data[j][c]) THEN df.data[j][c]
    ELSE IF j = Len(df.index) THEN NaN
    ELSE FilledCell_back(df, j + 1, c)

\* the value fillna(method='ffill') leaves in row j of column c
RECURSIVE FilledCell(_, _, _)
FilledCell(df, j, c) ==
    IF ~IsNaN(df.data[j][c]) THEN df.data[j][c]
    ELSE IF j = 1 THEN NaN
    ELSE FilledCell(df, j - 1, c)

\* FormalData._normalize_a_frame
normalize_a_frame(df) ==
    [df EXCEPT !.data = [j \in DOMAIN df.index |->
                            [c \in df.columns |-> FilledCell(df, j, c)]]]

\* __init__ reindexing the tables of bad_keys instead of dropping them
PortfolioPerformanceData_keep_bad(f) ==
    LET general_index == get_full_range_for_dates(f)[1]
    IN  [k \in Keys |->
            IF IsNone(f[k]) \/ k \notin DateKeys THEN f[k]
            ELSE normalize_a_frame(Reindex(f[k], general_index))]

\* the raw dictionary __init__ leaves in self._df_raw
PortfolioPerformanceData(f) ==
    LET fr            == get_full_range_for_dates(f)
        general_index == fr[1]
        bad_keys      == fr[2]
    IN  [k \in Keys |->
            IF IsNone(f[k]) \/ k \notin DateKeys THEN f[k]
            ELSE IF k \in bad_keys THEN None
            ELSE normalize_a_frame(Reindex(f[k], general_index))]

-----------------------------------------------------------------------------
(* Labelled tables *)

SeqSet(q) == {q[k] : k \in DOMAIN q}

\* the cell of df at (label, column); NaN where df has no such row or column
Cell(df, label, c) ==
    IF c \in df.columns /\ label \in SeqSet(df.index)
    THEN df.data[CHOOSE k \in DOMAIN df.index : df.index[k] = label][c]
    ELSE NaN

\* one cell of sub, div or mul
Arith(op, x, y) ==
    CASE op = "sub" -> FSub(x, y)
      [] op = "div" -> FDiv(x, y)
      [] op = "mul" -> FMul(x, y)

\* an elementwise binary operation of pandas: both frames are aligned on
\* the union of their row labels and the union of their columns
Flex(op, a, b) ==
    LET idx == SortedSeq(SeqSet(a.index) \cup SeqSet(b.index))
        cs  == a.columns \cup b.columns
    IN  [index   |-> idx,
         columns |-> cs,
         data    |-> [j \in DOMAIN idx |->
                        [c \in cs |-> Arith(op, Cell(a, idx[j], c),
                                            Cell(b, idx[j], c))]]]

\* DataFrame.shift(1): every row moves down one place, row 0 becomes NaN
Shift(df) ==
    [df EXCEPT !.data = [j \in DOMAIN df.index |->
                            [c \in df.columns |->
                                IF j = 1 THEN NaN ELSE df.data[j - 1][c]]]]

\* DataFrame.diff(): the row minus the row before it
Diff(df) == Flex("sub", df, Shift(df))

-----------------------------------------------------------------------------
(* FormalData: return engine and currency resolver *)

\* __get_an_attitude dividing by the current row, df.diff().div(df)
get_an_attitude_by_current(df) ==
    IF IsNone(df) THEN None
    ELSE Flex("div", Diff(df), df)

\* FormalData.__get_an_attitude under df_checker
get_an_attitude(df) ==
    IF IsNone(df) THEN None
    ELSE Flex("div", Diff(df), Shift(df))

\* exchanges.T.merge(currencies, how='right', right_on='currency',
\* left_index=True).T.drop('currency'): one column per asset holding the
\* rates of the asset's currency, NaN where exchanges has no such column
Merge(exchanges_df, currency_df) ==
    [index   |-> exchanges_df.index,
     columns |-> currency_df.index,
     data    |-> [j \in DOMAIN exchanges_df.index |->
                    [a \in currency_df.index |->
                        IF currency_df.currency[a] \in exchanges_df.columns
                        THEN exchanges_df.data[j][currency_df.currency[a]]
                        ELSE NaN]]]

\* merge_df.isna().all() for one column
AllNaN(df, c) == \A j \in DOMAIN df.index : IsNaN(df.data[j][c])

\* __get_currency_raw filling every undefined cell with 1
get_currency_raw_fill_all(raw) ==
    IF IsNone(raw["currencies"]) \/ IsNone(raw["exchanges"]) THEN None
    ELSE LET merge_df == Merge(raw["exchanges"], raw["currencies"])
         IN  [merge_df EXCEPT !.data =
                  [j \in DOMAIN merge_df.index |->
                      [c \in merge_df.columns |->
                          IF IsNaN(merge_df.data[j][c]) THEN Num(1)
                          ELSE merge_df.data[j][c]]]]

\* FormalData.__get_currency_raw
get_currency_raw(raw) ==
    IF IsNone(raw["currencies"]) \/ IsNone(raw["exchanges"]) THEN None
    ELSE LET merge_df    == Merge(raw["exchanges"], raw["currencies"])
             new_columns == {c \in merge_df.columns : AllNaN(merge_df, c)}
         IN  [merge_df EXCEPT !.data =
                  [j \in DOMAIN merge_df.index |->
                      [c \in merge_df.columns |->
                          IF c \in new_columns THEN Num(1)
                          ELSE merge_df.data[j][c]]]]

\* the value __get_total_raw and _generate_currency leave in
\* self._df_currency_raw: filled on first use, kept afterwards
CurrencyRawAfter(raw, cached) ==
    IF IsNone(cached) THEN get_currency_raw(raw) ELSE cached

\* __get_total_raw using the resolved currency table only if an earlier
\* call left one
get_total_raw_no_resolve(raw, cached) ==
    IF IsNone(raw["prices"]) THEN None
    ELSE IF IsNone(cached) THEN None
    ELSE Flex("mul", raw["prices"], cached)

\* FormalData.__get_total_raw, given _df_currency_raw as it leaves it
get_total_raw(raw, cached) ==
    IF IsNone(raw["prices"]) THEN None
    ELSE IF IsNone(CurrencyRawAfter(raw, cached)) THEN None
    ELSE Flex("mul", raw["prices"], CurrencyRawAfter(raw, cached))

-----------------------------------------------------------------------------
(* PortfolioData: aggregation *)

\* sum of the cells of row j over the columns cs, skipna=False
RECURSIVE RowSum(_, _, _)
RowSum(df, j, cs) ==
    IF cs = {} THEN Num(0)
    ELSE LET c == CHOOSE x \in cs : TRUE
         IN  FAdd(df.data[j][c], RowSum(df, j, cs \ {c}))

\* sum of the defined cells of row j over the columns cs, skipna=True
RECURSIVE RowSumSkipNa(_, _, _)
RowSumSkipNa(df, j, cs) ==
    IF cs = {} THEN Num(0)
    ELSE LET c == CHOOSE x \in cs : TRUE
         IN  IF IsNaN(df.data[j][c]) THEN RowSumSkipNa(df, j, cs \ {c})
             ELSE FAdd(df.data[j][c], RowSumSkipNa(df, j, cs \ {c}))

\* DataFrame.sum(axis=1) with the default skipna=True
SumRows_skipna(df) ==
    [index |-> df.index,
     name  |-> "",
     data  |-> [j \in DOMAIN df.index |-> RowSumSkipNa(df, j, df.columns)]]

\* DataFrame.sum(axis=1, skipna=False)
SumRows(df) ==
    [index |-> df.index,
     name  |-> "",
     data  |-> [j \in DOMAIN df.index |-> RowSum(df, j, df.columns)]]

\* __get_a_portfolio without its test of the weights table
get_a_portfolio_unweighted(raw, df) ==
    IF IsNone(df) THEN None
    ELSE IF IsNone(raw["weights"]) THEN SumRows(df)
    ELSE SumRows(Flex("mul", df, raw["weights"]))

\* __get_a_portfolio summing over the columns both tables have
get_a_portfolio_shared(raw, df) ==
    IF IsNone(df) THEN None
    ELSE IF IsNone(raw["weights"]) THEN None
    ELSE SumRows([Flex("mul", df, raw["weights"]) EXCEPT
                     !.columns = df.columns \cap raw["weights"].columns])

\* PortfolioData.__get_a_portfolio under df_checker
get_a_portfolio(raw, df) ==
    IF IsNone(df) THEN None
    ELSE IF IsNone(raw["weights"]) THEN None
    ELSE SumRows(Flex("mul", df, raw["weights"]))

-----------------------------------------------------------------------------
(* PortfolioPerformanceData: performance *)

\* product of the defined values among the first j
RECURSIVE ProdTo(_, _)
ProdTo(q, j) ==
    IF j = 0 THEN Num(1)
    ELSE IF IsNaN(q[j]) THEN ProdTo(q, j - 1)
    ELSE FMul(ProdTo(q, j - 1), q[j])

\* Series.add(1).cumprod(): NaN rows stay NaN and are skipped by the
\* running product
AddOneCumprod(sr) ==
    LET plus == [j \in DOMAIN sr.index |-> FAdd(sr.data[j], Num(1))]
    IN  [sr EXCEPT !.data = [j \in DOMAIN sr.index |->
                                IF IsNaN(plus[j]) THEN NaN
                                ELSE ProdTo(plus, j)]]

\* the positions a label slice [start:end] selects on a sorted index
SlicePositions(idx, start, end) ==
    {j \in DOMAIN idx : start <= idx[j] /\ idx[j] <= end}

\* sr[start:end] for two Timestamps
SliceSeries(sr, start, end) ==
    LET keep == SortedSeq(SlicePositions(sr.index, start, end))
    IN  [index |-> [k \in DOMAIN keep |-> sr.index[keep[k]]],
         name  |-> sr.name,
         data  |-> [k \in DOMAIN keep |-> sr.data[keep[k]]]]

\* __portfolio_performance cutting the window before it compounds
portfolio_performance_cut_first(df, start, end, name) ==
    IF IsNone(df) THEN None
    ELSE [AddOneCumprod(SliceSeries(df, start, end)) EXCEPT !.name = name]

\* PortfolioPerformanceData.__portfolio_performance for two Timestamps,
\* under df_checker
portfolio_performance(df, start, end, name) ==
    IF IsNone(df) THEN None
    ELSE SliceSeries([AddOneCumprod(df) EXCEPT !.name = name], start, end)

-----------------------------------------------------------------------------
(* The public calls *)

\* the number of arguments date_checker sees in *args after self, for a
\* call that passes kw of its two dates by keyword (end_date first)
Positional(kw) == 2 - kw

\* date_checker raises TypeError: a positional argument converts to False
DateCheckFails(a1, a2, kw) ==
    \/ Positional(kw) >= 1 /\ try_convert_date_time(a1).kind = "False"
    \/ Positional(kw) = 2 /\ try_convert_date_time(a2).kind = "False"

\* date_checker calling the wrapped method before it looks at the dates
date_checker_late(fails, untouched, produced) == produced

\* date_checker emptying the field of a call it refuses
date_checker_clears(fails, untouched, produced) ==
    IF fails THEN None ELSE produced

\* the wrapper of date_checker, seen from a field of the object: when the
\* check fails the wrapped method is not entered and the field keeps its
\* value, otherwise it holds what the method leaves in it
date_checker(fails, untouched, produced) ==
    IF fails THEN untouched ELSE produced

\* a string is one of the shapes YYYYMMDD or YYYY-MM-DD
PlainShape(s) ==
    \/ Len(s) = 8 /\ \A k \in 1..8 : s[k] \in DigitChars
    \/ /\ Len(s) = 10
       /\ s[5] = "-" /\ s[8] = "-"
       /\ \A k \in (1..10) \ {5, 8} : s[k] \in DigitChars

\* the bound the label slice works with: a converted positional argument,
\* or a keyword argument as the caller wrote it, which the index parses
\* itself if it is a string (kind "False": the slice raises)
SliceBound(a, positional) ==
    IF positional THEN try_convert_date_time(a)
    ELSE IF a.ts THEN Timestamp(a.day)
    ELSE IF PlainShape(a.str) THEN ToDatetime(StripNonDigits(a.str))
    ELSE False

NoSeries == [index |-> <<>>, name |-> "", data |-> <<>>]

\* the outcome of the wrapped method once date_checker let the call through
Outcome(portfolio, a1, a2, kw, name) ==
    LET start == SliceBound(a1, Positional(kw) >= 1)
        end   == SliceBound(a2, Positional(kw) = 2)
    IN  IF IsNone(portfolio)
        THEN [kind |-> "None", series |-> NoSeries, portfolio |-> NoSeries]
        ELSE IF start.kind = "False" \/ end.kind = "False"
        THEN [kind |-> "LibraryError", series |-> NoSeries,
              portfolio |-> portfolio]
        ELSE [kind |-> "Series",
              series |-> portfolio_performance(portfolio, start.day,
                                               end.day, name),
              portfolio |-> portfolio]

Raised == [kind |-> "TypeError", series |-> NoSeries, portfolio |-> NoSeries]

\* what the caller gets: the TypeError of date_checker or the outcome of
\* the wrapped method
Returned(fails, outcome) == IF fails THEN Raised ELSE outcome

\* dates a caller passes: Timestamps before, inside and at the end of the
\* data, a separated date string, and a string of nine digits
QueryArgs ==
    {TsArg(Day(0)), TsArg(Day(2)), TsArg(Day(NumDays)),
     StrArg(<<"2", "0", "1", "3", "-", "0", "2", "-", "0", "1">>),
     StrArg(<<"2", "0", "1", "3", "0", "2", "0", "1", "0">>)}

\* the arguments a caller passes by keyword
KwArgs ==
    {TsArg(Day(2)),
     StrArg(<<"2", "0", "1", "3", "0", "2", "0", "1", "0">>)}

\* <<start_date, end_date, number of dates passed by keyword>>
CallArgs ==
    {<<a1, a2, 0>> : a1 \in QueryArgs, a2 \in QueryArgs}
    \cup {<<a1, a2, 1>> : a1 \in QueryArgs, a2 \in KwArgs}
    \cup {<<a1, a2, 2>> : a1 \in KwArgs, a2 \in KwArgs}

\* FormalData._generate_asset
generate_asset(raw, cached) ==
    IF IsNone(cached) THEN get_an_attitude(raw["prices"]) ELSE cached

\* FormalData._generate_currency, the _df_currency part
generate_currency(raw, cachedRaw, cached) ==
    IF IsNone(cached) THEN get_an_attitude(CurrencyRawAfter(raw, cachedRaw))
    ELSE cached

\* FormalData._generate_total
generate_total(raw, cachedRaw, cached) ==
    IF IsNone(cached) THEN get_an_attitude(get_total_raw(raw, cachedRaw))
    ELSE cached

\* _df_currency_raw after _generate_total: __get_total_raw runs only while
\* _df_total is None and fills the field only when prices are there
TotalCurrencyRaw(raw, cachedRaw, cached) ==
    IF IsNone(cached) /\ ~IsNone(raw["prices"])
    THEN CurrencyRawAfter(raw, cachedRaw)
    ELSE cachedRaw

\* the derived tables an object caches
Tables == {"raw_currency", "asset", "currency", "total"}

\* the computations a call of _generate_asset enters however often it ran
asset_computes_always(raw, cached) ==
    IF ~IsNone(raw["prices"]) THEN {"asset"} ELSE {}

\* the computations a call of _generate_asset enters: the body of
\* __get_an_attitude, which df_checker calls only for a table
asset_computes(raw, cached) ==
    IF IsNone(cached) /\ ~IsNone(raw["prices"]) THEN {"asset"} ELSE {}

\* the computations a call of _generate_currency enters: the property
\* __get_currency_raw and the body of __get_an_attitude
currency_computes(raw, cachedRaw, cached) ==
    (IF IsNone(cachedRaw) THEN {"raw_currency"} ELSE {})
    \cup (IF IsNone(cached) /\ ~IsNone(CurrencyRawAfter(raw, cachedRaw))
          THEN {"currency"} ELSE {})

\* the computations a call of _generate_total enters: the property
\* __get_currency_raw inside __get_total_raw and the body of
\* __get_an_attitude
total_computes(raw, cachedRaw, cached) ==
    IF ~IsNone(cached) THEN {}
    ELSE (IF ~IsNone(raw["prices"]) /\ IsNone(cachedRaw)
          THEN {"raw_currency"} ELSE {})
         \cup (IF ~IsNone(get_total_raw(raw, cachedRaw))
               THEN {"total"} ELSE {})

\* the counts after one more run of each computation of S
Counted(rs, S) == [t \in Tables |-> IF t \in S THEN rs[t] + 1 ELSE rs[t]]

\* no computation of S has been counted MaxRuns times
Countable(rs, S) == \A t \in S : rs[t] < MaxRuns

MkCall(scope, a1, a2, kw) ==
    [scope |-> scope, start |-> a1, end |-> a2, kw |-> kw]

NoCall == MkCall("", TsArg(0), TsArg(0), 0)

NoResult == [kind |-> "NoCall", series |-> NoSeries, portfolio |-> NoSeries]

\* In the three calls \E over a set of one element names a value that the
\* call works out once: whether date_checker refuses the dates, the
\* computations the call enters, and the aggregate of the return table.

calculate_asset_performance(a1, a2, kw) ==
    /\ result = NoResult
    /\ \E fails \in {DateCheckFails(a1, a2, kw)} :
       \E computes \in {asset_computes(df_raw, df_asset)} :
          /\ fails \/ Countable(runs, computes)
          /\ call' = MkCall("asset", a1, a2, kw)
          /\ runs' = IF fails THEN runs ELSE Counted(runs, computes)
          /\ df_asset' = date_checker(fails, df_asset,
                                      generate_asset(df_raw, df_asset))
          /\ \E portfolio \in {get_a_portfolio(df_raw, df_asset')} :
                result' = Returned(fails,
                                   Outcome(portfolio, a1, a2, kw, "Pt"))
    /\ UNCHANGED <<files, df_raw, df_currency, raw_currency, df_total,
                   arg, date>>

calculate_currency_performance(a1, a2, kw) ==
    /\ result = NoResult
    /\ \E fails \in {DateCheckFails(a1, a2, kw)} :
       \E computes \in {currency_computes(df_raw, raw_currency,
                                          df_currency)} :
          /\ fails \/ Countable(runs, computes)
          /\ call' = MkCall("currency", a1, a2, kw)
          /\ runs' = IF fails THEN runs ELSE Counted(runs, computes)
          /\ raw_currency' = date_checker(fails, raw_currency,
                                          CurrencyRawAfter(df_raw,
                                                           raw_currency))
          /\ df_currency' = date_checker(fails, df_currency,
                                         generate_currency(df_raw,
                                                           raw_currency,
                                                           df_currency))
          /\ \E portfolio \in {get_a_portfolio(df_raw, df_currency')} :
                result' = Returned(fails,
                                   Outcome(portfolio, a1, a2, kw, "CPt"))
    /\ UNCHANGED <<files, df_raw, df_asset, df_total, arg, date>>

calculate_total_performance(a1, a2, kw) ==
    /\ result = NoResult
    /\ \E fails \in {DateCheckFails(a1, a2, kw)} :
       \E computes \in {total_computes(df_raw, raw_currency, df_total)} :
          /\ fails \/ Countable(runs, computes)
          /\ call' = MkCall("total", a1, a2, kw)
          /\ runs' = IF fails THEN runs ELSE Counted(runs, computes)
          /\ raw_currency' = date_checker(fails, raw_currency,
                                          TotalCurrencyRaw(df_raw,
                                                           raw_currency,
                                                           df_total))
          /\ df_total' = date_checker(fails, df_total,
                                      generate_total(df_raw, raw_currency,
                                                     df_total))
          /\ \E portfolio \in {get_a_portfolio(df_raw, df_total')} :
                result' = Returned(fails,
                                   Outcome(portfolio, a1, a2, kw, "TPt"))
    /\ UNCHANGED <<files, df_raw, df_asset, df_currency, arg, date>>

\* the caller takes the value or the exception of the call it made
ReturnToCaller ==
    /\ result # NoResult
    /\ call' = NoCall
    /\ result' = NoResult
    /\ UNCHANGED <<files, df_raw, df_asset, df_currency, raw_currency,
                   df_total, arg, date, runs>>

-----------------------------------------------------------------------------
(* Specification of one object and its callers *)

NoArg == StrArg(<<>>)

Pending == [kind |-> "Pending", day |-> 0]

Init ==
    /\ \E c \in CurrenciesFiles : \E e \in ExchangesFiles :
          \E p \in PricesFiles : \E w \in WeightsFiles :
              files = [currencies |-> c, exchanges |-> e,
                       prices |-> p, weights |-> w]
    /\ df_raw = PortfolioPerformanceData(files)
    /\ df_asset = None
    /\ df_currency = None
    /\ raw_currency = None
    /\ df_total = None
    /\ call = NoCall
    /\ result = NoResult
    /\ arg = NoArg
    /\ date = Pending
    /\ runs = [t \in Tables |-> 0]

Next ==
    \/ \E c \in CallArgs : calculate_asset_performance(c[1], c[2], c[3])
    \/ \E c \in CallArgs : calculate_currency_performance(c[1], c[2], c[3])
    \/ \E c \in CallArgs : calculate_total_performance(c[1], c[2], c[3])
    \/ ReturnToCaller

Spec == Init /\ [][Next]_vars

-----------------------------------------------------------------------------
(* Specification of the date normaliser alone *)

TailChars == {"0", "1", "2", "3", "-"}

Tails == UNION {[1..n -> TailChars] : n \in 0..MaxTail}

YearHead == <<"2", "0", "1">>

\* arguments: Timestamps, strings that begin 201, strings without a digit
NormArgs ==
    {TsArg(Day(i)) : i \in 1..NumDays}
    \cup {StrArg(YearHead \o t) : t \in Tails}
    \cup {StrArg(<<>>), StrArg(<<"-">>), StrArg(<<"-", "-">>)}

Normalize ==
    /\ date = Pending
    /\ date' = try_convert_date_time(arg)
    /\ UNCHANGED <<files, df_raw, df_asset, df_currency, raw_currency,
                   df_total, call, result, arg, runs>>

InitNorm ==
    /\ files = [k \in Keys |-> None]
    /\ df_raw = PortfolioPerformanceData(files)
    /\ df_asset = None
    /\ df_currency = None
    /\ raw_currency = None
    /\ df_total = None
    /\ call = NoCall
    /\ result = NoResult
    /\ arg \in NormArgs
    /\ date = Pending
    /\ runs = [t \in Tables |-> 0]

NextNorm == Normalize

SpecNorm == InitNorm /\ [][NextNorm]_vars

-----------------------------------------------------------------------------
(* Properties *)

Called == result.kind # "NoCall"

Absent(k) == IsNone(files[k])

Corrupted(k) == k \in DateKeys /\ ~IsNone(files[k]) /\ IndexCorrupted(files[k])

\* the raw tables a scope cannot do without
Requires(scope) ==
    CASE scope = "asset" -> {"prices", "weights"}
      [] scope = "currency" -> {"currencies", "exchanges", "weights"}
      [] scope = "total" -> Keys
      [] OTHER -> {}

Normalizes(a) == try_convert_date_time(a).kind = "Timestamp"

ValidWindow == Normalizes(call.start) /\ Normalizes(call.end)

\* C1: when no file has a corrupted index, a query with a valid date
\* window returns None exactly when one of the tables its scope requires
\* is absent (asset: prices, weights; currency: currencies, exchanges,
\* weights; total: all four), and otherwise returns a series; it never
\* raises.
C1_NullIffRequiredAbsent ==
    (Called /\ ValidWindow /\ \A k \in Keys : ~Corrupted(k)) =>
        /\ result.kind \in {"None", "Series"}
        /\ result.kind = "None" <=> \E k \in Requires(call.scope) : Absent(k)

\* prices absent, everything else there: the currency query still answers
C1_Witness ==
    /\ Absent("prices")
    /\ \A k \in Keys \ {"prices"} : ~Absent(k) /\ ~Corrupted(k)
    /\ call.scope = "currency"
    /\ ValidWindow
    /\ result.kind = "Series"
    /\ Len(result.series.index) > 0

\* C2: a date-indexed table whose index does not parse is None after
\* construction while every table that parsed stays a table, and every
\* query answers None or a series exactly as if the corrupted tables had
\* been absent.
C2_CorruptedLikeAbsent ==
    /\ \A k \in DateKeys : Corrupted(k) => IsNone(df_raw[k])
    /\ \A k \in Keys : (~Absent(k) /\ ~Corrupted(k)) => ~IsNone(df_raw[k])
    /\ (Called /\ ValidWindow /\ \E k \in Keys : Corrupted(k)) =>
          /\ result.kind \in {"None", "Series"}
          /\ result.kind = "None" <=>
                \E k \in Requires(call.scope) : Absent(k) \/ Corrupted(k)

\* corrupted prices, everything else usable: currency answers, the caches
\* of the other scopes stay empty
C2_Witness ==
    /\ Corrupted("prices")
    /\ \A k \in Keys \ {"prices"} : ~Absent(k) /\ ~Corrupted(k)
    /\ call.scope = "currency"
    /\ ValidWindow
    /\ result.kind = "Series"
    /\ Len(result.series.index) > 0

\* C3: a query with a start_date or end_date that does not normalise ends
\* in a raised error, never in None or a series, however the dates were
\* passed (an error raised by the index is counted as the format error).
C3_InvalidDateRaises ==
    (Called /\ ~ValidWindow) => result.kind \in {"TypeError", "LibraryError"}

StartDay == try_convert_date_time(call.start).day

EndDay == try_convert_date_time(call.end).day

\* the canonical daily range every usable date table is reindexed onto
CanonicalDays == SeqSet(get_full_range_for_dates(files)[1])

\* C4: the series a query returns holds exactly the dates d of the
\* canonical range with start_date <= d < end_date: the row dated
\* start_date is in it, the row dated end_date is not.
C4_HalfOpenWindow ==
    (result.kind = "Series" /\ ValidWindow) =>
        SeqSet(result.series.index) =
            {d \in CanonicalDays : StartDay <= d /\ d < EndDay}

\* the return the aggregate holds for the date of row k of the result
ReturnAt(k) ==
    LET pf == result.portfolio
    IN  pf.data[CHOOSE j \in DOMAIN pf.index :
                    pf.index[j] = result.series.index[k]]

\* C5 as first stated: within the returned window performance[t] =
\* performance[t-1] * (1 + portfolio_return[t]), the performance before
\* the first returned date being 1.
C5_WindowStartsAtOne ==
    (result.kind = "Series" /\ ValidWindow) =>
        \A k \in DOMAIN result.series.index :
            result.series.data[k] =
                FMul(IF k = 1 THEN Num(1) ELSE result.series.data[k - 1],
                     FAdd(Num(1), ReturnAt(k)))

\* (1 + r) compounded over the dates of the data up to row j that have a
\* defined portfolio return r
RECURSIVE Compounded(_, _)
Compounded(pf, j) ==
    IF j = 0 THEN Num(1)
    ELSE IF IsNaN(pf.data[j]) THEN Compounded(pf, j - 1)
    ELSE FMul(FAdd(pf.data[j], Num(1)), Compounded(pf, j - 1))

\* rows of the result before row k that hold a defined performance
DefinedBefore(k) ==
    {i \in 1..(k - 1) : ~IsNaN(result.series.data[i])}

\* C5: a returned date with an undefined portfolio return has an undefined
\* performance; any other returned date t has performance[t] =
\* P * (1 + portfolio_return[t]), where P is the performance of the latest
\* earlier date with a defined return, and the compounding starts from 1
\* at the first date of the data, not at the first date of the window.
C5_CompoundsFromDataStart ==
    (result.kind = "Series" /\ ValidWindow) =>
        \A k \in DOMAIN result.series.index :
            LET pf == result.portfolio
                j  == CHOOSE i \in DOMAIN pf.index :
                          pf.index[i] = result.series.index[k]
                r  == pf.data[j]
                P  == IF DefinedBefore(k) = {} THEN Compounded(pf, j - 1)
                      ELSE result.series.data[
                               CHOOSE i \in DefinedBefore(k) :
                                   \A h \in DefinedBefore(k) : h <= i]
            IN  IF IsNaN(r) THEN IsNaN(result.series.data[k])
                ELSE result.series.data[k] = FMul(P, FAdd(Num(1), r))

\* a window that opens after the data has begun to compound: the first
\* returned value is not 1 + portfolio_return[start]
C5_Witness ==
    /\ result.kind = "Series"
    /\ ValidWindow
    /\ Len(result.series.index) >= 2
    /\ ~IsNaN(result.series.data[1])
    /\ ~IsNaN(result.series.data[2])
    /\ result.series.data[1] # FAdd(Num(1), ReturnAt(1))

Usable(k) == ~Absent(k) /\ ~Corrupted(k)

\* C6: when the tables of the scope are usable and both dates normalise,
\* a query whose window [start_date, end_date) holds no date of the
\* canonical range (start_date > end_date included) returns a series
\* without rows.
C6_EmptyWindowEmptySeries ==
    (/\ Called
     /\ ValidWindow
     /\ \A k \in Requires(call.scope) : Usable(k)
     /\ {d \in CanonicalDays : StartDay <= d /\ d < EndDay} = {}) =>
        result.kind = "Series" /\ Len(result.series.index) = 0

ArgDigits == StripNonDigits(arg.str)

ArgYear == 1000 * DigitVal(ArgDigits[1]) + 100 * DigitVal(ArgDigits[2])
           + 10 * DigitVal(ArgDigits[3]) + DigitVal(ArgDigits[4])

ArgMonth == 10 * DigitVal(ArgDigits[5]) + DigitVal(ArgDigits[6])

ArgDay == 10 * DigitVal(ArgDigits[7]) + DigitVal(ArgDigits[8])

\* C8: try_convert_date_time returns a Timestamp unchanged, turns a string
\* into the date its digits spell when exactly eight digits are left after
\* the separators are removed and they form a calendar date, and reports
\* failure (False) for every other argument.
C8_NormalizerExact ==
    (date # Pending) =>
        IF arg.ts THEN date = Timestamp(arg.day)
        ELSE IF Len(ArgDigits) = 8 /\ ValidDate(ArgYear, ArgMonth, ArgDay)
        THEN date = Timestamp(Ordinal(ArgYear, ArgMonth, ArgDay))
        ELSE date = False

\* the return table the scope of the last call aggregates
ScopeCache ==
    CASE call.scope = "asset" -> df_asset
      [] call.scope = "currency" -> df_currency
      [] call.scope = "total" -> df_total

\* sum over the assets cs of return * weight on the date t
RECURSIVE WeightedSum(_, _, _, _)
WeightedSum(rt, w, t, cs) ==
    IF cs = {} THEN Num(0)
    ELSE LET c == CHOOSE x \in cs : TRUE
         IN  FAdd(WeightedSum(rt, w, t, cs \ {c}),
                  FMul(Cell(w, t, c), Cell(rt, t, c)))

\* every return and weight of the date t is defined
FullDate(rt, w, t) ==
    \A c \in rt.columns \cup w.columns :
        ~IsNaN(Cell(rt, t, c)) /\ ~IsNaN(Cell(w, t, c))

\* C9: for every date the aggregate is the sum over the assets of
\* return * weight when all of them are defined on that date and is
\* undefined when any of them is undefined, for each of the three scopes.
C9_StrictWeightedSum ==
    (result.kind \in {"Series", "LibraryError"}) =>
        LET pf == result.portfolio
            rt == ScopeCache
            w  == df_raw["weights"]
        IN  /\ SeqSet(pf.index) = CanonicalDays
            /\ \A j \in DOMAIN pf.index :
                  IF FullDate(rt, w, pf.index[j])
                  THEN pf.data[j] = WeightedSum(rt, w, pf.index[j],
                                                rt.columns \cup w.columns)
                  ELSE IsNaN(pf.data[j])

\* an aggregate with a fully defined date and with a date on which one
\* asset has a defined return and weight while another has no return
C9_Witness ==
    /\ result.kind = "Series"
    /\ \E j \in DOMAIN result.portfolio.index :
          /\ FullDate(ScopeCache, df_raw["weights"], result.portfolio.index[j])
          /\ result.portfolio.data[j] # Num(0)
    /\ \E j \in DOMAIN result.portfolio.index :
          LET t == result.portfolio.index[j]
          IN  /\ IsNaN(result.portfolio.data[j])
              /\ \E c \in ScopeCache.columns :
                    /\ ~IsNaN(Cell(ScopeCache, t, c))
                    /\ ~IsNaN(Cell(df_raw["weights"], t, c))
              /\ \E c \in ScopeCache.columns : IsNaN(Cell(ScopeCache, t, c))

\* Y is the table of relative changes of the table X
IsAttitudeOf(Y, X) ==
    /\ Y.index = X.index
    /\ Y.columns = X.columns
    /\ \A j \in DOMAIN X.index : \A c \in X.columns :
          IF j = 1 THEN IsNaN(Y.data[j][c])
          ELSE IF IsNaN(X.data[j][c]) \/ IsNaN(X.data[j - 1][c])
          THEN IsNaN(Y.data[j][c])
          ELSE /\ ~IsNaN(Y.data[j][c])
               /\ FMul(Y.data[j][c], X.data[j - 1][c])
                     = FSub(X.data[j][c], X.data[j - 1][c])

\* prices * resolved currency, cell by cell
PriceTimesRate ==
    LET cs == df_raw["prices"].columns \cup raw_currency.columns
    IN  [index   |-> raw_currency.index,
         columns |-> cs,
         data    |-> [j \in DOMAIN raw_currency.index |->
                        [c \in cs |->
                            FMul(Cell(df_raw["prices"],
                                      raw_currency.index[j], c),
                                 Cell(raw_currency,
                                      raw_currency.index[j], c))]]]

\* C10: each cached return table has the shape of its source, an undefined
\* first row, and in every other cell Y[t] = (X[t] - X[t-1]) / X[t-1],
\* undefined when X[t] or X[t-1] is; the source is the prices for the
\* asset returns, the resolved currency table for the currency returns and
\* the cell by cell product of the two for the total returns.
C10_ReturnFormula ==
    /\ ~IsNone(df_asset) => IsAttitudeOf(df_asset, df_raw["prices"])
    /\ ~IsNone(df_currency) => IsAttitudeOf(df_currency, raw_currency)
    /\ ~IsNone(df_total) =>
          \E X \in {PriceTimesRate} : IsAttitudeOf(df_total, X)

\* the three return tables are cached, each with a defined change that is
\* not zero, and the asset returns are undefined past the first row
C10_Witness ==
    /\ ~IsNone(df_asset) /\ ~IsNone(df_currency) /\ ~IsNone(df_total)
    /\ \A Y \in {df_asset, df_currency, df_total} :
          \E j \in DOMAIN Y.index : \E c \in Y.columns :
              ~IsNaN(Y.data[j][c]) /\ Y.data[j][c] # Num(0)
    /\ \E c \in df_asset.columns :
          IsNaN(df_asset.data[2][c]) /\ ~IsNaN(df_raw["prices"].data[2][c])

\* C11 as first stated: over any sequence of queries the resolved currency
\* table and each of the three return tables is computed at most once,
\* also when a raw table it needs is missing.
C11_ComputedAtMostOnce == \A t \in Tables : runs[t] <= 1

\* the cache field of each derived table
CacheOf(t) ==
    CASE t = "raw_currency" -> raw_currency
      [] t = "asset" -> df_asset
      [] t = "currency" -> df_currency
      [] t = "total" -> df_total

\* C11: each of the three return computations runs at most once, and so
\* does the resolver of the currency table when currencies and exchanges
\* are both usable; a table is cached exactly when its computation ran
\* and produced one.  While currencies or exchanges is missing the
\* resolver runs again in every query that needs it.
C11_ComputedOnceWhenPresent ==
    /\ \A t \in {"asset", "currency", "total"} :
          /\ runs[t] <= 1
          /\ runs[t] = 1 <=> ~IsNone(CacheOf(t))
    /\ (Usable("currencies") /\ Usable("exchanges")) =>
          /\ runs["raw_currency"] <= 1
          /\ runs["raw_currency"] = 1 <=> ~IsNone(raw_currency)
    /\ ~(Usable("currencies") /\ Usable("exchanges")) =>
          IsNone(raw_currency)

\* every derived table is cached after one run of its computation: the
\* resolved currency table served both the currency and the total query
C11_Witness ==
    /\ \A t \in Tables : runs[t] = 1 /\ ~IsNone(CacheOf(t))
    /\ result.kind = "Series"

\* C12: a cache field that holds a table keeps that very table through
\* every step, whether the call succeeds, returns None or is refused for
\* its dates, and the raw tables never change after construction.
C12_CachesOnlyFill ==
    [][/\ ~IsNone(df_asset) => df_asset' = df_asset
       /\ ~IsNone(df_currency) => df_currency' = df_currency
       /\ ~IsNone(raw_currency) => raw_currency' = raw_currency
       /\ ~IsNone(df_total) => df_total' = df_total
       /\ df_raw' = df_raw]_vars

\* a call refused for its dates on an object whose four cache fields are
\* filled
C12_Witness ==
    /\ \A t \in Tables : ~IsNone(CacheOf(t))
    /\ result.kind = "TypeError"

\* the dates found in the files of the usable date-indexed tables
UsableDays == UNION {IndexDays(files[k]) : k \in {x \in DateKeys : Usable(x)}}

\* the index runs day by day from lo to hi
DailyFromTo(idx, lo, hi) ==
    /\ Len(idx) = hi - lo + 1
    /\ \A j \in DOMAIN idx : idx[j] = lo + j - 1

\* C13: after construction every usable date-indexed table has the same
\* index, the days from the earliest to the latest date found in the
\* usable date-indexed tables taken together; the dates of a table whose
\* index does not parse take no part, and every date-indexed table that
\* is not usable is None (all of them when none parsed).
C13_CommonDailyIndex ==
    \A k \in DateKeys :
        IF Usable(k)
        THEN /\ ~IsNone(df_raw[k])
             /\ \E days \in {UsableDays} :
                   \E lo \in days :
                      /\ \A d \in days : lo <= d
                      /\ \E hi \in days :
                            /\ \A d \in days : d <= hi
                            /\ DailyFromTo(df_raw[k].index, lo, hi)
        ELSE IsNone(df_raw[k])

\* the prices and the exchanges are usable and each has more rows than its
\* file, whose dates begin a day late or end a day early, while the
\* weights, corrupted, are None
C13_Witness ==
    /\ Usable("prices") /\ Usable("exchanges") /\ Corrupted("weights")
    /\ IsNone(df_raw["weights"])
    /\ Len(files["prices"].index) < Len(df_raw["prices"].index)
    /\ Len(files["exchanges"].index) < Len(df_raw["exchanges"].index)
    /\ df_raw["prices"].index = df_raw["exchanges"].index
    /\ Called

\* every return and weight of the assets cs is defined on the date t
DefinedOn(rt, w, t, cs) ==
    \A c \in cs : ~IsNaN(Cell(rt, t, c)) /\ ~IsNaN(Cell(w, t, c))

\* C14 as first stated: the aggregate of a date is decided by the assets
\* the return table and the weights share, the sum of return * weight
\* over them when all are defined and undefined otherwise; a column of
\* only one of the two tables neither adds to the sum nor makes a date
\* undefined.
C14_SharedAssetsDecide ==
    (result.kind \in {"Series", "LibraryError"}) =>
        LET pf     == result.portfolio
            rt     == ScopeCache
            w      == df_raw["weights"]
            shared == rt.columns \cap w.columns
        IN  \A j \in DOMAIN pf.index :
                IF DefinedOn(rt, w, pf.index[j], shared)
                THEN pf.data[j] = WeightedSum(rt, w, pf.index[j], shared)
                ELSE IsNaN(pf.data[j])

\* C14: an asset column that only one of the return table and the weights
\* table has makes the aggregate undefined on every date, whatever the
\* shared assets hold.
C14_UnsharedColumnUndefinesAll ==
    (/\ result.kind \in {"Series", "LibraryError"}
     /\ ScopeCache.columns # df_raw["weights"].columns) =>
        \A j \in DOMAIN result.portfolio.index :
            IsNaN(result.portfolio.data[j])

\* weights for asset A alone against returns of A and B: on some date the
\* return and the weight of A are defined and the aggregate is not
C14_Witness ==
    /\ result.kind = "Series"
    /\ ScopeCache.columns \cap df_raw["weights"].columns # {}
    /\ ScopeCache.columns # df_raw["weights"].columns
    /\ \E j \in DOMAIN result.portfolio.index :
          /\ DefinedOn(ScopeCache, df_raw["weights"],
                       result.portfolio.index[j],
                       ScopeCache.columns \cap df_raw["weights"].columns)
          /\ IsNaN(result.portfolio.data[j])
    /\ Len(result.series.index) > 0

\* the rate of the currency of asset a in row j of the exchanges table,
\* undefined when the table has no column for that currency
RateOf(a, j) ==
    LET cur == files["currencies"].currency[a]
        ex  == df_raw["exchanges"]
    IN  IF cur \in ex.columns THEN ex.data[j][cur] ELSE NaN

\* C15: the resolved currency table exists only when currencies and
\* exchanges are both there; it has the dates of the exchanges table and
\* one column per asset of the currencies table; the column of an asset
\* whose currency has no defined rate on any date is 1 on every date, and
\* every other column holds the rate of the asset's currency on each
\* date, undefined where that rate is undefined.
C15_ResolvedCurrencyTable ==
    ~IsNone(raw_currency) =>
        /\ Usable("currencies") /\ Usable("exchanges")
        /\ raw_currency.index = df_raw["exchanges"].index
        /\ raw_currency.columns = files["currencies"].index
        /\ \A a \in raw_currency.columns :
              IF \A j \in DOMAIN raw_currency.index : IsNaN(RateOf(a, j))
              THEN \A j \in DOMAIN raw_currency.index :
                       raw_currency.data[j][a] = Num(1)
              ELSE \A j \in DOMAIN raw_currency.index :
                       raw_currency.data[j][a] = RateOf(a, j)

\* a resolved table with a column that is 1 throughout, its currency not
\* being quoted, and a column that has a rate on one date and none on
\* another
C15_Witness ==
    /\ ~IsNone(raw_currency)
    /\ \E a \in raw_currency.columns :
          /\ files["currencies"].currency[a] \notin df_raw["exchanges"].columns
          /\ \A j \in DOMAIN raw_currency.index :
                raw_currency.data[j][a] = Num(1)
    /\ \E a \in raw_currency.columns :
          /\ \E j \in DOMAIN raw_currency.index :
                IsNaN(raw_currency.data[j][a])
          /\ \E j \in DOMAIN raw_currency.index :
                /\ ~IsNaN(raw_currency.data[j][a])
                /\ raw_currency.data[j][a] # Num(1)

\* the rows of the file of table k that hold a value for column c and are
\* dated d or earlier
ObservedUpTo(k, c, d) ==
    {i \in DOMAIN files[k].index :
        files[k].index[i].day <= d /\ ~IsNaN(files[k].data[i][c])}

\* C16: in every usable date-indexed table the cell of a date and a
\* column holds the value the file has for that column on the latest date
\* at or before it that has one, and is undefined exactly when the file
\* has no value for the column at or before that date.
C16_ForwardFillOnly ==
    \A k \in DateKeys :
        Usable(k) =>
            \A j \in DOMAIN df_raw[k].index : \A c \in df_raw[k].columns :
                \E obs \in {ObservedUpTo(k, c, df_raw[k].index[j])} :
                    IF obs = {} THEN IsNaN(df_raw[k].data[j][c])
                    ELSE df_raw[k].data[j][c] =
                            files[k].data[
                                CHOOSE i \in obs : \A h \in obs :
                                    files[k].index[h].day
                                        <= files[k].index[i].day][c]

\* a usable table whose first row stays undefined in a column that has a
\* value on a later date, and which has a value on a date its file skips
C16_Witness ==
    \E k \in DateKeys :
        /\ Usable(k)
        /\ \E c \in df_raw[k].columns :
              /\ IsNaN(df_raw[k].data[1][c])
              /\ \E j \in DOMAIN df_raw[k].index :
                    /\ df_raw[k].index[j] \notin IndexDays(files[k])
                    /\ ~IsNaN(df_raw[k].data[j][c])

\* the return table the scope of the last call gets on an object that
\* has answered no query yet
FreshCache ==
    CASE call.scope = "asset" -> generate_asset(df_raw, None)
      [] call.scope = "currency" -> generate_currency(df_raw, None, None)
      [] call.scope = "total" -> generate_total(df_raw, None, None)

\* the name the scope of the last call gives its series
ScopeName ==
    CASE call.scope = "asset" -> "Pt"
      [] call.scope = "currency" -> "CPt"
      [] call.scope = "total" -> "TPt"

\* C17: whatever calls came before, a query ends as the same query would
\* end as the first call on an object newly built from the same files,
\* and a resolved currency table is the one the resolver gives for the raw
\* tables, whether a currency or a total query stored it.
C17_HistoryFree ==
    /\ df_raw = PortfolioPerformanceData(files)
    /\ Called =>
          \E portfolio \in {get_a_portfolio(df_raw, FreshCache)} :
             result = Returned(DateCheckFails(call.start, call.end, call.kw),
                               Outcome(portfolio, call.start, call.end,
                                       call.kw, ScopeName))
    /\ ~IsNone(raw_currency) => raw_currency = get_currency_raw(df_raw)

\* a total query answered with a series on an object that had answered an
\* asset and a currency query before, the currency query having stored
\* the resolved currency table
C17_Witness ==
    /\ call.scope = "total"
    /\ result.kind = "Series"
    /\ Len(result.series.index) > 0
    /\ runs["asset"] = 1 /\ runs["currency"] = 1
    /\ runs["raw_currency"] = 1
    /\ ~IsNone(df_asset) /\ ~IsNone(df_currency)

=============================================================================
